---- MODULE Spec2Model ----
(***************************************************************************)
(* EVE SDE search tool: the snapshot directory of line-delimited table     *)
(* files, the update worker that refreshes it and writes the change log,   *)
(* the index builder, and the two keyword search paths.                    *)
(*                                                                         *)
(* Text is a sequence of one-character strings.  A line of a table file    *)
(* is a record; bad = TRUE is a line json.loads rejects.                   *)
(***************************************************************************)
EXTENDS Integers, Sequences, FiniteSets, Bags, TLC

\* ------------------------------------------------------------------ bounds
\* Record ids that occur in table files and manifests are 1..MaxId.
MaxId == 2
\* Longest change manifest, in lines.
MaxManifest == 2
\* Longest table file handed to the change computation, in lines.
MaxFileLen == 2
\* Most rows in an index that is searched.
MaxRows == 3
\* Largest limit passed to EveDB.search.
MaxLimit == 2
\* Longest keyword typed, in characters.
MaxKw == 3
\* Most search workers started in one session.
MaxSearches == 2

\* ------------------------------------------------------------ JSON values
\* Python's None (a missing field read with dict.get).
None == 0 - 1

Ids == 1 .. MaxId

Tables == {"t1", "t2"}

\* _sde.jsonl, the build marker, lives in the snapshot directory with the tables.
SdeFile == "_sde"

FileNames == Tables \cup {SdeFile}

\* The name field of a record: a dict with en/zh, a plain string, or missing.
NoName == [kind |-> "absent", en |-> <<>>, zh |-> <<>>]

\* The name the change log gives a removed record.
RemovedName == [kind |-> "dict", en |-> <<"(", "r", ")">>, zh |-> <<"(", "x", ")">>]

\* A parsed line: _key, id, typeID, name, buildNumber; v tells payloads apart.
Rec(k, v) ==
    [bad |-> FALSE, key |-> k, id |-> None, typeID |-> None, nm |-> NoName,
     build |-> None, v |-> v]

\* A line that json.loads rejects.
BadLine ==
    [bad |-> TRUE, key |-> None, id |-> None, typeID |-> None, nm |-> NoName,
     build |-> None, v |-> 0]

\* The first line of _sde.jsonl: {"_key": "sde", "buildNumber": b, ...}.
SdeKey == 9

MarkerLine(b) ==
    [bad |-> FALSE, key |-> SdeKey, id |-> None, typeID |-> None, nm |-> NoName,
     build |-> b, v |-> 0]

\* A file of the snapshot directory.
Absent == [exists |-> FALSE, lines |-> <<>>]

File(ls) == [exists |-> TRUE, lines |-> ls]

\* ------------------------------------------------------------ the state
VARIABLES
    sdeDir,        \* the snapshot directory exists
    files,         \* file name -> file of the snapshot directory
    changes,       \* the change-log file of the latest build
    latest,        \* upstream: buildNumber of latest.jsonl
    manifest,      \* upstream: lines of changes/<build>.jsonl
    archive,       \* upstream: members of the zip, in archive order
    updPc,         \* UpdateWorker: position in run()
    latest_buildNumber,   \* UpdateWorker.run local
    current_buildNumber,  \* UpdateWorker.run local
    extractIdx,    \* members of the archive extracted so far
    cursor,        \* manifest lines consumed so far
    updOk,         \* the run so far met no exception
    updEvents,     \* finished(bool) events emitted by the current run
    refresh,       \* this run's refresh step: none, skipped, running, done, failed
    startFiles,    \* the snapshot when the run was started
    prevRun,       \* outcome and change log of the previous finished run
    eEntry,        \* one manifest line handed to the change computation
    eFile,         \* the post-update file of its table
    eOut,          \* entries UpdateWorker.get_SDE_update writes for it
    eCliOut,       \* entries the script eve_SDE.get_SDE_update writes for it
    eDone,         \* the line has been processed
    eIo,           \* opens of the table file and lines read from it, by the worker
    eCliIo,        \* the same by the script
    dbExists,      \* data/eve_sde.db exists
    items,         \* committed rows of the items table, in rowid order
    searchText,    \* what the user typed into the search box
    limit,         \* the limit argument of EveDB.search
    guiPc,         \* the GUI thread: ready, or blocked in worker.wait()
    srchPc,        \* SearchWorker: position in run()
    srchKeyword,   \* SearchWorker.keyword
    is_running,    \* SearchWorker.is_running
    results,       \* the list db.search returned
    emitted,       \* result_found events emitted by the current worker
    srchFinished,  \* counts carried by its finished events
    srchErrors,    \* number of its error events
    fbPc,          \* streaming SearchWorker: position in run()
    fbKeyword,     \* its keyword
    fbRunning,     \* its is_running flag
    fbListing,     \* the .jsonl files os.listdir gave it
    fbFile,        \* index in fbListing of the file being scanned
    fbLine,        \* lines of that file read so far
    fbEmitted,     \* its result_found events, with file and line number
    total_found,   \* its local counter
    fbFinished,    \* counts carried by its finished events
    fbErrors,      \* number of its error events
    idxPc,         \* IndexWorker: position in run()
    pending,       \* rows inserted by build_index and not yet committed
    idxListing,    \* the .jsonl files os.listdir gave build_index
    idxFile,       \* index in idxListing of the file to process next
    idxEvents,     \* progress and finished events of the current IndexWorker
    idxPrior,      \* committed rows when the current IndexWorker was started
    installed,     \* the snapshot before the first update run
    guiQueue,      \* signals posted to the GUI thread and not yet delivered
    table,         \* rows of the result table, each with the worker it came from
    btnStop,       \* search_btn reads "stop" and is connected to stop_search
    inputEnabled,  \* search_input is enabled
    searchBtnEnabled,   \* search_btn is enabled
    rebuildBtnEnabled,  \* rebuild_btn is enabled
    updateBtnEnabled,   \* update_btn is enabled
    srchGen        \* number of search workers created so far

syncVars ==
    <<sdeDir, files, changes, latest, manifest, archive, updPc, latest_buildNumber,
      current_buildNumber, extractIdx, cursor, updOk, updEvents, refresh,
      startFiles, prevRun>>

entryVars == <<eEntry, eFile, eOut, eCliOut, eDone, eIo, eCliIo>>

dbVars == <<dbExists, items>>

searchVars ==
    <<searchText, limit, srchPc, srchKeyword, is_running, results, emitted,
      srchFinished, srchErrors>>

fbVars ==
    <<fbPc, fbKeyword, fbRunning, fbListing, fbFile, fbLine, fbEmitted, total_found,
      fbFinished, fbErrors>>

idxVars == <<idxPc, pending, idxListing, idxFile, idxEvents, idxPrior>>

uiVars ==
    <<guiQueue, table, btnStop, inputEnabled, searchBtnEnabled, rebuildBtnEnabled,
      updateBtnEnabled, srchGen>>

vars ==
    <<syncVars, entryVars, dbVars, searchVars, fbVars, idxVars, guiPc, installed,
      uiVars>>

\* What the update worker never touches.
notSyncWorkers == <<entryVars, dbVars, searchVars, fbVars, idxVars, guiPc, installed>>

\* The same with the main window, for the steps that leave it alone.
notSync == <<notSyncWorkers, uiVars>>

\* What the indexed search worker and its handlers never touch.
notSearchWorkers == <<syncVars, entryVars, dbVars, fbVars, idxVars, installed>>

\* The same with the main window, for the steps that leave it alone.
notSearch == <<notSearchWorkers, uiVars>>

\* What the streaming search worker and its handlers never touch.
notFallbackWorkers == <<syncVars, entryVars, dbVars, searchVars, idxVars, installed>>

\* The same with the main window, for the steps that leave it alone.
notFallback == <<notFallbackWorkers, uiVars>>

\* What the change computation on one line never touches.
notEntryWorkers == <<syncVars, dbVars, searchVars, fbVars, idxVars, guiPc, installed>>

\* The same with the main window, for the steps that leave it alone.
notEntry == <<notEntryWorkers, uiVars>>

\* What the index worker and its handler never touch.
notIndexWorkers == <<syncVars, entryVars, searchVars, fbVars, guiPc, installed>>

\* The same with the main window, for the steps that leave it alone.
notIndex == <<notIndexWorkers, uiVars>>

\* What the slots of the main window never touch.
notGui ==
    <<syncVars, entryVars, dbVars, searchVars, fbVars, idxVars, guiPc, installed>>

\* ------------------------------------------------------------------ signals
\* A signal a worker has emitted, queued for the GUI thread: gen is the search
\* worker it came from (0 for the other workers).
Signal(sig, gen, row, n, ok) == [sig |-> sig, gen |-> gen, row |-> row, n |-> n, ok |-> ok]

\* --------------------------------------------------- UpdateWorker helpers
\* Iteration order of a Python set of small ints: ascending.
RECURSIVE SetOrder(_)
SetOrder(S) ==
    IF S = {} THEN <<>>
    ELSE LET m == CHOOSE x \in S : \A y \in S : x <= y
         IN  <<m>> \o SetOrder(S \ {m})

\* run(): first line of _sde.jsonl, data.get("buildNumber"); None on any failure.
ReadMarker(fs) ==
    IF ~fs[SdeFile].exists THEN None
    ELSE IF fs[SdeFile].lines = <<>> THEN None
    ELSE IF fs[SdeFile].lines[1].bad THEN None
    ELSE fs[SdeFile].lines[1].build

\* open(changes_file, "w"): the file exists and is empty.
TruncateKeep(f) == File(f.lines)

Truncate(f) == File(<<>>)

\* One "removed" entry per id of removed_ids, in set order.
RemovedRecord(key, rid) ==
    [src |-> key, status |-> "removed",
     data |-> [bad |-> FALSE, key |-> rid, id |-> None, typeID |-> None,
               nm |-> RemovedName, build |-> None, v |-> 0]]

RECURSIVE RemovedEntries(_, _)
RemovedEntries(key, rids) ==
    IF rids = <<>> THEN <<>>
    ELSE <<RemovedRecord(key, Head(rids))>> \o RemovedEntries(key, Tail(rids))

\* The status a scanned record gets, "" for none.
StatusAnyOrder(item_id, m) ==
    IF item_id \in m.changed THEN "changed"
    ELSE IF item_id \in m.added THEN "added"
    ELSE IF m.fileAdded THEN "added"
    ELSE ""

StatusNoFileAdded(item_id, m) ==
    IF item_id \in m.added THEN "added"
    ELSE IF item_id \in m.changed THEN "changed"
    ELSE ""

StatusOf(item_id, m) ==
    IF item_id \in m.added THEN "added"
    ELSE IF item_id \in m.changed THEN "changed"
    ELSE IF m.fileAdded THEN "added"
    ELSE ""

\* A variant with two independent tests: a record listed in both sets is written
\* once as added and once as changed.
RECURSIVE ScanEntriesTwice(_, _)
ScanEntriesTwice(m, ls) ==
    IF ls = <<>> THEN <<>>
    ELSE LET l == Head(ls)
             rest == ScanEntriesTwice(m, Tail(ls))
         IN  IF l.bad THEN rest
             ELSE (IF l.key \in m.added \/ (m.fileAdded /\ l.key \notin m.changed)
                   THEN <<[src |-> m.key, status |-> "added", data |-> l]>>
                   ELSE <<>>)
                  \o (IF l.key \in m.changed
                      THEN <<[src |-> m.key, status |-> "changed", data |-> l]>>
                      ELSE <<>>)
                  \o rest

\* The scan of the table file: one entry per line that parses and has a status.
RECURSIVE ScanEntries(_, _)
ScanEntries(m, ls) ==
    IF ls = <<>> THEN <<>>
    ELSE LET l == Head(ls)
             rest == ScanEntries(m, Tail(ls))
         IN  IF l.bad THEN rest
             ELSE IF StatusOf(l.key, m) = "" THEN rest
             ELSE <<[src |-> m.key, status |-> StatusOf(l.key, m), data |-> l]>> \o rest

\* A variant that looks for the table file before it writes anything.
LineEntriesFileFirst(m, fs) ==
    IF m.bad THEN <<>>
    ELSE IF m.key = "_meta" THEN <<>>
    ELSE IF Cardinality(m.added) + Cardinality(m.changed) + Cardinality(m.removed) = 0
            /\ ~m.fileAdded THEN <<>>
    ELSE IF ~(m.key \in DOMAIN fs /\ fs[m.key].exists) THEN <<>>
    ELSE RemovedEntries(m.key, SetOrder(m.removed))
         \o (IF m.added # {} \/ m.changed # {} \/ m.fileAdded
             THEN ScanEntries(m, fs[m.key].lines)
             ELSE <<>>)

\* What one manifest line appends to the change log.
LineEntries(m, fs) ==
    IF m.bad THEN <<>>
    ELSE IF m.key = "_meta" THEN <<>>
    ELSE IF Cardinality(m.added) + Cardinality(m.changed) + Cardinality(m.removed) = 0
            /\ ~m.fileAdded THEN <<>>
    ELSE RemovedEntries(m.key, SetOrder(m.removed))
         \o (IF (m.added # {} \/ m.changed # {} \/ m.fileAdded)
                /\ m.key \in DOMAIN fs /\ fs[m.key].exists
             THEN ScanEntries(m, fs[m.key].lines)
             ELSE <<>>)

\* The script's scan knows "added" and "changed" only.
SDE_StatusOf(item_id, m) ==
    IF item_id \in m.added THEN "added"
    ELSE IF item_id \in m.changed THEN "changed"
    ELSE ""

RECURSIVE SDE_ScanEntries(_, _)
SDE_ScanEntries(m, ls) ==
    IF ls = <<>> THEN <<>>
    ELSE LET l == Head(ls)
             rest == SDE_ScanEntries(m, Tail(ls))
         IN  IF l.bad THEN rest
             ELSE IF SDE_StatusOf(l.key, m) = "" THEN rest
             ELSE <<[src |-> m.key, status |-> SDE_StatusOf(l.key, m), data |-> l]>>
                  \o rest

\* What one manifest line appends to the change log in the script eve_SDE.py.
SDE_LineEntries(m, fs) ==
    IF m.bad THEN <<>>
    ELSE IF m.key = "_meta" THEN <<>>
    ELSE IF m.added = {} /\ m.changed = {} /\ m.removed = {} THEN <<>>
    ELSE RemovedEntries(m.key, SetOrder(m.removed))
         \o (IF (m.added # {} \/ m.changed # {})
                /\ m.key \in DOMAIN fs /\ fs[m.key].exists
             THEN SDE_ScanEntries(m, fs[m.key].lines)
             ELSE <<>>)

\* Opens of the table file of a manifest line, and lines read from it.
NoIo == [opens |-> 0, reads |-> 0]

\* A variant that goes through the table file once for every listed id.
SourceOpensPerId(m, fs) ==
    IF m.bad THEN 0
    ELSE IF m.key = "_meta" THEN 0
    ELSE IF m.key \in DOMAIN fs /\ fs[m.key].exists
         THEN Cardinality(m.added) + Cardinality(m.changed)
              + (IF m.fileAdded THEN 1 ELSE 0)
         ELSE 0

\* UpdateWorker.get_SDE_update: one "with open(source_file)" per manifest line
\* that reaches step 2 with the file present.
SourceOpens(m, fs) ==
    IF m.bad \/ m.key = "_meta" THEN 0
    ELSE IF (m.added # {} \/ m.changed # {} \/ m.fileAdded)
            /\ m.key \in DOMAIN fs /\ fs[m.key].exists
         THEN 1
         ELSE 0

\* "for f_line in f" reads every line of the opened file once.
SourceIo(m, fs) ==
    [opens |-> SourceOpens(m, fs),
     reads |-> IF m.key \in DOMAIN fs
               THEN SourceOpens(m, fs) * Len(fs[m.key].lines) ELSE 0]

\* The same in the script eve_SDE.py.
SDE_SourceOpens(m, fs) ==
    IF m.bad \/ m.key = "_meta" THEN 0
    ELSE IF (m.added # {} \/ m.changed # {})
            /\ m.key \in DOMAIN fs /\ fs[m.key].exists
         THEN 1
         ELSE 0

SDE_SourceIo(m, fs) ==
    [opens |-> SDE_SourceOpens(m, fs),
     reads |-> IF m.key \in DOMAIN fs
               THEN SDE_SourceOpens(m, fs) * Len(fs[m.key].lines) ELSE 0]

\* A variant that writes the new entries at the head of the file.
PrependLines(f, es) == IF es = <<>> /\ ~f.exists THEN f ELSE File(es \o f.lines)

\* Appending entries with open(changes_file, "a").
AppendLines(f, es) == IF es = <<>> /\ ~f.exists THEN f ELSE File(f.lines \o es)

\* A line of the change manifest.
Entry(key, added, changed, removed, fileAdded) ==
    [bad |-> FALSE, key |-> key, added |-> added, changed |-> changed,
     removed |-> removed, fileAdded |-> fileAdded]

\* A manifest line that json.loads rejects, and the reserved _meta line.
BadManifestLine == [bad |-> TRUE, key |-> "", added |-> {}, changed |-> {},
                    removed |-> {}, fileAdded |-> FALSE]

MetaLine == Entry("_meta", {}, {}, {}, FALSE)

BoundedSeq(S, n) == UNION {[1 .. k -> S] : k \in 0 .. n}

\* ------------------------------------------------------- UpdateWorker.run
\* EveSearchApp.start_update: refused while an update worker is running.
start_update ==
    /\ guiPc = "ready"
    /\ updateBtnEnabled
    /\ updPc = "idle"
    /\ updPc' = "latest"
    /\ latest_buildNumber' = None
    /\ current_buildNumber' = None
    /\ extractIdx' = 0
    /\ cursor' = 0
    /\ updOk' = TRUE
    /\ updEvents' = <<>>
    /\ refresh' = "none"
    /\ startFiles' = files
    /\ UNCHANGED <<sdeDir, files, changes, latest, manifest, archive, prevRun>>
    /\ updateBtnEnabled' = FALSE
    /\ UNCHANGED <<guiQueue, table, btnStop, inputEnabled, searchBtnEnabled,
                   rebuildBtnEnabled, srchGen>>
    /\ UNCHANGED notSyncWorkers

\* An exception anywhere in run(): control goes to the except clause.
Raise ==
    /\ updOk' = FALSE
    /\ updPc' = "emit"

\* read_SDE_latest_info returns the latest build.
U_ReadLatest ==
    /\ updPc = "latest"
    /\ latest_buildNumber' = latest
    /\ updPc' = "check"
    /\ UNCHANGED <<sdeDir, files, changes, latest, manifest, archive,
                   current_buildNumber, extractIdx, cursor, updOk, updEvents,
                   refresh, startFiles, prevRun>>
    /\ UNCHANGED notSync

\* read_SDE_latest_info raises (transport error, missing field).
U_ReadLatestFail ==
    /\ updPc = "latest"
    /\ Raise
    /\ UNCHANGED <<sdeDir, files, changes, latest, manifest, archive,
                   latest_buildNumber, current_buildNumber, extractIdx, cursor,
                   updEvents, refresh, startFiles, prevRun>>
    /\ UNCHANGED notSync

\* run(): the download is skipped only when the two build numbers are equal.
UpToDateIfUnreadable(current, latestB) == current = None \/ current = latestB

UpToDate(current, latestB) == current = latestB

\* The local marker is read and compared with the latest build.
U_CheckVersion ==
    /\ updPc = "check"
    /\ current_buildNumber' = ReadMarker(files)
    /\ IF UpToDate(ReadMarker(files), latest_buildNumber)
       THEN refresh' = "skipped" /\ updPc' = "changes"
       ELSE refresh' = "running" /\ updPc' = "download"
    /\ UNCHANGED <<sdeDir, files, changes, latest, manifest, archive,
                   latest_buildNumber, extractIdx, cursor, updOk, updEvents,
                   startFiles, prevRun>>
    /\ UNCHANGED notSync

\* download_latest_eve_SDE_json: the zip is fetched and the directory made.
U_Download ==
    /\ updPc = "download"
    /\ sdeDir' = TRUE
    /\ extractIdx' = 0
    /\ updPc' = "extract"
    /\ UNCHANGED <<files, changes, latest, manifest, archive, latest_buildNumber,
                   current_buildNumber, cursor, updOk, updEvents, refresh,
                   startFiles, prevRun>>
    /\ UNCHANGED notSync

\* The request or the write of the zip raises.
U_DownloadFail ==
    /\ updPc = "download"
    /\ Raise
    /\ refresh' = "failed"
    /\ UNCHANGED <<sdeDir, files, changes, latest, manifest, archive,
                   latest_buildNumber, current_buildNumber, extractIdx, cursor,
                   updEvents, startFiles, prevRun>>
    /\ UNCHANGED notSync

\* extractall writes the next member over the file of that name.
ExtractMember(fs, member) == [fs EXCEPT ![member.name] = File(member.lines)]

U_Extract ==
    /\ updPc = "extract"
    /\ extractIdx < Len(archive)
    /\ files' = ExtractMember(files, archive[extractIdx + 1])
    /\ extractIdx' = extractIdx + 1
    /\ UNCHANGED <<sdeDir, changes, latest, manifest, archive, updPc,
                   latest_buildNumber, current_buildNumber, cursor, updOk,
                   updEvents, refresh, startFiles, prevRun>>
    /\ UNCHANGED notSync

\* Every member is out; the zip is removed.
U_ExtractDone ==
    /\ updPc = "extract"
    /\ extractIdx = Len(archive)
    /\ refresh' = "done"
    /\ updPc' = "changes"
    /\ UNCHANGED <<sdeDir, files, changes, latest, manifest, archive,
                   latest_buildNumber, current_buildNumber, extractIdx, cursor,
                   updOk, updEvents, startFiles, prevRun>>
    /\ UNCHANGED notSync

\* ZipFile or extractall raises, before any member or between two members.
U_ExtractFail ==
    /\ updPc = "extract"
    /\ Raise
    /\ refresh' = "failed"
    /\ UNCHANGED <<sdeDir, files, changes, latest, manifest, archive,
                   latest_buildNumber, current_buildNumber, extractIdx, cursor,
                   updEvents, startFiles, prevRun>>
    /\ UNCHANGED notSync

\* get_SDE_update: the manifest request succeeds, the change log is emptied.
U_OpenChanges ==
    /\ updPc = "changes"
    /\ changes' = Truncate(changes)
    /\ cursor' = 0
    /\ updPc' = "lines"
    /\ UNCHANGED <<sdeDir, files, latest, manifest, archive, latest_buildNumber,
                   current_buildNumber, extractIdx, updOk, updEvents, refresh,
                   startFiles, prevRun>>
    /\ UNCHANGED notSync

\* The manifest request raises.
U_OpenChangesFail ==
    /\ updPc = "changes"
    /\ Raise
    /\ UNCHANGED <<sdeDir, files, changes, latest, manifest, archive,
                   latest_buildNumber, current_buildNumber, extractIdx, cursor,
                   updEvents, refresh, startFiles, prevRun>>
    /\ UNCHANGED notSync

\* A variant that also patches the table file in place: the records the line
\* lists as changed or removed are dropped from it.
PatchedFile(m, f) ==
    File(SelectSeq(f.lines, LAMBDA l : l.bad \/ l.key \notin (m.changed \cup m.removed)))

Patched(m, fs) ==
    IF ~m.bad /\ m.key \in DOMAIN fs /\ fs[m.key].exists
    THEN [fs EXCEPT ![m.key] = PatchedFile(m, fs[m.key])]
    ELSE fs

U_LinePatchesSnapshot ==
    /\ updPc = "lines"
    /\ cursor < Len(manifest)
    /\ changes' = AppendLines(changes, LineEntries(manifest[cursor + 1], files))
    /\ files' = Patched(manifest[cursor + 1], files)
    /\ cursor' = cursor + 1
    /\ UNCHANGED <<sdeDir, latest, manifest, archive, updPc,
                   latest_buildNumber, current_buildNumber, extractIdx, updOk,
                   updEvents, refresh, startFiles, prevRun>>
    /\ UNCHANGED notSync

\* One line of response.iter_lines() is processed.
U_LineBadAborts ==
    /\ updPc = "lines"
    /\ cursor < Len(manifest)
    /\ cursor' = cursor + 1
    /\ IF manifest[cursor + 1].bad
       THEN Raise /\ UNCHANGED changes
       ELSE /\ changes' = AppendLines(changes, LineEntries(manifest[cursor + 1], files))
            /\ UNCHANGED <<updPc, updOk>>
    /\ UNCHANGED <<sdeDir, files, latest, manifest, archive, latest_buildNumber,
                   current_buildNumber, extractIdx, updEvents, refresh, startFiles,
                   prevRun>>
    /\ UNCHANGED notSync

U_Line ==
    /\ updPc = "lines"
    /\ cursor < Len(manifest)
    /\ changes' = AppendLines(changes, LineEntries(manifest[cursor + 1], files))
    /\ cursor' = cursor + 1
    /\ UNCHANGED <<sdeDir, files, latest, manifest, archive, updPc,
                   latest_buildNumber, current_buildNumber, extractIdx, updOk,
                   updEvents, refresh, startFiles, prevRun>>
    /\ UNCHANGED notSync

\* The manifest stream breaks between two lines.
U_StreamFail ==
    /\ updPc = "lines"
    /\ Raise
    /\ UNCHANGED <<sdeDir, files, changes, latest, manifest, archive,
                   latest_buildNumber, current_buildNumber, extractIdx, cursor,
                   updEvents, refresh, startFiles, prevRun>>
    /\ UNCHANGED notSync

\* The stream is exhausted; get_SDE_update returns.
U_LinesDone ==
    /\ updPc = "lines"
    /\ cursor = Len(manifest)
    /\ updPc' = "emit"
    /\ UNCHANGED <<sdeDir, files, changes, latest, manifest, archive,
                   latest_buildNumber, current_buildNumber, extractIdx, cursor,
                   updOk, updEvents, refresh, startFiles, prevRun>>
    /\ UNCHANGED notSync

\* finished.emit(True, ...) or, from the except clause, finished.emit(False, ...).
U_Emit ==
    /\ updPc = "emit"
    /\ updEvents' = Append(updEvents, updOk)
    /\ prevRun' = [ran |-> TRUE, ok |-> updOk, log |-> changes]
    /\ updPc' = "idle"
    /\ UNCHANGED <<sdeDir, files, changes, latest, manifest, archive,
                   latest_buildNumber, current_buildNumber, extractIdx, cursor,
                   updOk, refresh, startFiles>>
    /\ guiQueue' = Append(guiQueue, Signal("update_finished", 0, <<>>, 0, updOk))
    /\ UNCHANGED <<table, btnStop, inputEnabled, searchBtnEnabled, rebuildBtnEnabled,
                   updateBtnEnabled, srchGen>>
    /\ UNCHANGED notSyncWorkers

UpdateWorkerStep ==
    \/ U_ReadLatest \/ U_ReadLatestFail \/ U_CheckVersion
    \/ U_Download \/ U_DownloadFail
    \/ U_Extract \/ U_ExtractDone \/ U_ExtractFail
    \/ U_OpenChanges \/ U_OpenChangesFail
    \/ U_Line \/ U_StreamFail \/ U_LinesDone \/ U_Emit

\* ------------------------------------------------------------------ text
\* str.lower(), for the letters of the model's alphabet.
LowerChar(c) == IF c = "A" THEN "a" ELSE IF c = "B" THEN "b" ELSE c

Lower(s) == [i \in DOMAIN s |-> LowerChar(s[i])]

\* str.strip(): leading and trailing blanks removed.
RECURSIVE LStrip(_)
LStrip(s) == IF s # <<>> /\ Head(s) = " " THEN LStrip(Tail(s)) ELSE s

RECURSIVE RStrip(_)
RStrip(s) ==
    IF s # <<>> /\ s[Len(s)] = " " THEN RStrip(SubSeq(s, 1, Len(s) - 1)) ELSE s

Strip(s) == RStrip(LStrip(s))

\* str.split(): the maximal blank-free pieces, in order.
RECURSIVE SplitFrom(_, _)
SplitFrom(s, cur) ==
    IF s = <<>> THEN (IF cur = <<>> THEN <<>> ELSE <<cur>>)
    ELSE IF Head(s) = " "
         THEN (IF cur = <<>> THEN <<>> ELSE <<cur>>) \o SplitFrom(Tail(s), <<>>)
         ELSE SplitFrom(Tail(s), Append(cur, Head(s)))

Split(s) == SplitFrom(s, <<>>)

\* t occurs in text as a block of consecutive characters (Python's in).
IsSubstring(t, text) ==
    \E i \in 0 .. Len(text) - Len(t) : SubSeq(text, i + 1, i + Len(t)) = t

\* str(n) for the one-digit numbers of the model.
Digits == <<"0", "1", "2", "3", "4", "5", "6", "7", "8", "9">>

Str(n) == <<Digits[n + 1]>>

\* a or b in Python: a when a is truthy (neither None nor 0), else b.
PyOr(a, b) == IF a # None /\ a # 0 THEN a ELSE b

\* ------------------------------------------------------- EveDB.build_index
\* A record with a name.
RecN(k, nm) == [Rec(k, 0) EXCEPT !.nm = nm]

DictName(en, zh) == [kind |-> "dict", en |-> en, zh |-> zh]

StrName(t) == [kind |-> "str", en |-> t, zh |-> t]

\* name_en and name_zh as build_index and the fallback scan resolve them.
NameEn(l) == IF l.nm.kind \in {"dict", "str"} THEN l.nm.en ELSE <<>>

NameZh(l) == IF l.nm.kind \in {"dict", "str"} THEN l.nm.zh ELSE <<>>

ItemId(l) == PyOr(PyOr(l.key, l.id), l.typeID)

ItemIdStr(l) == IF ItemId(l) # None THEN Str(ItemId(l)) ELSE <<>>

\* The row build_index inserts for a parsed line of file file_name.
IndexRow(file_name, l) ==
    [id |-> ItemIdStr(l),
     source_file |-> file_name,
     name_zh |-> NameZh(l),
     name_en |-> NameEn(l),
     search_text |-> Lower(ItemIdStr(l) \o <<" ">> \o NameZh(l) \o <<" ">> \o NameEn(l)),
     json_data |-> l]

\* ------------------------------------------------------------ EveDB.search
\* SQLite's LIKE without ESCAPE: % is any run of characters, _ any one character,
\* letters compare without case.
RECURSIVE Like(_, _)
Like(pat, t) ==
    IF pat = <<>> THEN t = <<>>
    ELSE IF Head(pat) = "%"
         THEN Like(Tail(pat), t) \/ (t # <<>> /\ Like(pat, Tail(t)))
    ELSE IF t = <<>> THEN FALSE
    ELSE IF Head(pat) = "_" THEN Like(Tail(pat), Tail(t))
    ELSE LowerChar(Head(pat)) = LowerChar(Head(t)) /\ Like(Tail(pat), Tail(t))

\* search_text LIKE ? with the parameter %kw%.
LikeContains(kw, t) == Like(<<"%">> \o kw \o <<"%">>, t)

\* The WHERE clause: one LIKE condition per keyword, joined by AND.
RowMatches(keywords, row) ==
    \A i \in DOMAIN keywords : LikeContains(keywords[i], row.search_text)

RECURSIVE Matching(_, _)
Matching(rows, keywords) ==
    IF rows = <<>> THEN <<>>
    ELSE (IF RowMatches(keywords, Head(rows)) THEN <<Head(rows)>> ELSE <<>>)
         \o Matching(Tail(rows), keywords)

\* LIMIT n.
TakeAll(rows, n) == rows

Take(rows, n) == IF Len(rows) <= n THEN rows ELSE SubSeq(rows, 1, n)

\* EveDB.search(keyword, limit): err when the statement has no condition to parse.
DbSearch(rows, keyword, lim) ==
    LET keywords == Split(Strip(Lower(keyword)))
    IN  IF keywords = <<>>
        THEN [err |-> TRUE, rows |-> <<>>]
        ELSE [err |-> FALSE, rows |-> Take(Matching(rows, keywords), lim)]

\* ------------------------------------------------- SearchWorker (indexed)
\* A new SearchWorker(keyword) is created and started.
LaunchSearch ==
    /\ srchPc' = "run"
    /\ srchKeyword' = Strip(searchText)
    /\ is_running' = TRUE
    /\ results' = <<>>
    /\ emitted' = <<>>
    /\ srchFinished' = <<>>
    /\ srchErrors' = 0
    /\ srchGen' = srchGen + 1
    /\ table' = <<>>
    /\ btnStop' = TRUE
    /\ inputEnabled' = FALSE
    /\ UNCHANGED <<guiQueue, searchBtnEnabled, rebuildBtnEnabled, updateBtnEnabled>>

\* EveSearchApp.start_search, from the search button or from Enter in the search
\* box.
start_search_no_wait ==
    /\ guiPc = "ready"
    /\ (searchBtnEnabled /\ ~btnStop) \/ inputEnabled
    /\ srchGen < MaxSearches
    /\ Strip(searchText) # <<>>
    /\ LaunchSearch
    /\ guiPc' = "ready"
    /\ UNCHANGED <<searchText, limit>>
    /\ UNCHANGED notSearchWorkers

\* EveSearchApp.start_search, from the search button or from Enter in the search
\* box: a blank keyword is refused; a running worker is stopped and waited for,
\* then the table is emptied, the button becomes the stop button, the box is
\* disabled and the new worker starts.
start_search ==
    /\ guiPc = "ready"
    /\ (searchBtnEnabled /\ ~btnStop) \/ inputEnabled
    /\ srchGen < MaxSearches
    /\ Strip(searchText) # <<>>
    /\ IF srchPc # "idle"
       THEN /\ is_running' = FALSE
            /\ guiPc' = "wait"
            /\ UNCHANGED <<srchPc, srchKeyword, results, emitted, srchFinished,
                           srchErrors>>
            /\ UNCHANGED uiVars
       ELSE /\ LaunchSearch
            /\ guiPc' = "ready"
    /\ UNCHANGED <<searchText, limit>>
    /\ UNCHANGED notSearchWorkers

\* worker.wait() returns: the old worker has finished.
start_search_resume ==
    /\ guiPc = "wait"
    /\ srchPc = "idle"
    /\ LaunchSearch
    /\ guiPc' = "ready"
    /\ UNCHANGED <<searchText, limit>>
    /\ UNCHANGED notSearchWorkers

\* reset_ui_state: the button is the search button again, the box is enabled.
reset_ui_state ==
    /\ btnStop' = FALSE
    /\ inputEnabled' = TRUE

\* EveSearchApp.stop_search, from the stop button: the running worker's flag is
\* cleared and search_finished is called with the row count of the table.
stop_search ==
    /\ guiPc = "ready"
    /\ searchBtnEnabled /\ btnStop
    /\ srchPc # "idle"
    /\ is_running' = FALSE
    /\ reset_ui_state
    /\ UNCHANGED <<guiQueue, table, searchBtnEnabled, rebuildBtnEnabled,
                   updateBtnEnabled, srchGen>>
    /\ UNCHANGED <<searchText, limit, srchPc, srchKeyword, results, emitted,
                   srchFinished, srchErrors, guiPc>>
    /\ UNCHANGED notSearchWorkers

\* What the search worker's steps leave alone in the main window.
searchUi ==
    <<table, btnStop, inputEnabled, searchBtnEnabled, rebuildBtnEnabled,
      updateBtnEnabled, srchGen>>

\* run(): no database file, or db.search raises: error is emitted and run returns.
S_QueryError ==
    /\ srchPc = "run"
    /\ ~dbExists \/ DbSearch(items, srchKeyword, limit).err
    /\ srchErrors' = srchErrors + 1
    /\ guiQueue' = Append(guiQueue, Signal("error", srchGen, <<>>, 0, FALSE))
    /\ srchPc' = "idle"
    /\ UNCHANGED <<searchText, limit, srchKeyword, is_running, results, emitted,
                   srchFinished, guiPc>>
    /\ UNCHANGED searchUi
    /\ UNCHANGED notSearchWorkers

\* run(): results = db.search(self.keyword).
S_Query ==
    /\ srchPc = "run"
    /\ dbExists
    /\ ~DbSearch(items, srchKeyword, limit).err
    /\ results' = DbSearch(items, srchKeyword, limit).rows
    /\ srchPc' = "emitting"
    /\ UNCHANGED <<searchText, limit, srchKeyword, is_running, emitted,
                   srchFinished, srchErrors, guiPc>>
    /\ UNCHANGED notSearch

\* The loop over results: the next row is emitted while is_running holds.
S_EmitResult ==
    /\ srchPc = "emitting"
    /\ Len(emitted) < Len(results)
    /\ is_running
    /\ emitted' = Append(emitted, results[Len(emitted) + 1])
    /\ guiQueue' = Append(guiQueue,
                          Signal("result_found", srchGen, results[Len(emitted) + 1],
                                 0, TRUE))
    /\ UNCHANGED <<searchText, limit, srchPc, srchKeyword, is_running, results,
                   srchFinished, srchErrors, guiPc>>
    /\ UNCHANGED searchUi
    /\ UNCHANGED notSearchWorkers

\* The loop ends, by exhaustion or by break; finished carries len(results).
S_Finish ==
    /\ srchPc = "emitting"
    /\ Len(emitted) = Len(results) \/ ~is_running
    /\ srchFinished' = Append(srchFinished, Len(results))
    /\ guiQueue' = Append(guiQueue,
                          Signal("finished", srchGen, <<>>, Len(results), TRUE))
    /\ srchPc' = "idle"
    /\ UNCHANGED <<searchText, limit, srchKeyword, is_running, results, emitted,
                   srchErrors, guiPc>>
    /\ UNCHANGED searchUi
    /\ UNCHANGED notSearchWorkers

SearchWorkerStep == S_QueryError \/ S_Query \/ S_EmitResult \/ S_Finish

\* The search side at rest.
IdleSearch ==
    /\ searchText = <<>>
    /\ limit = 1
    /\ guiPc = "ready"
    /\ srchPc = "idle"
    /\ srchKeyword = <<>>
    /\ is_running = FALSE
    /\ results = <<>>
    /\ emitted = <<>>
    /\ srchFinished = <<>>
    /\ srchErrors = 0

\* No index database yet.
NoDb ==
    /\ dbExists = FALSE
    /\ items = <<>>

\* ------------------------------------------------ SearchWorker (streaming)
\* all(char in iterator for char in kw): each character is looked for from where
\* the search for the one before it stopped.
RECURSIVE InOrder(_, _)
InOrder(kw, text) ==
    IF kw = <<>> THEN TRUE
    ELSE IF \A i \in DOMAIN text : text[i] # Head(kw) THEN FALSE
    ELSE LET i == CHOOSE j \in DOMAIN text :
                      text[j] = Head(kw) /\ \A k \in 1 .. j - 1 : text[k] # Head(kw)
         IN  InOrder(Tail(kw), SubSeq(text, i + 1, Len(text)))

\* One keyword against the name text: substring first, then in-order characters.
TokenMatchSubstringOnly(kw, text) == IsSubstring(kw, text)

TokenMatch(kw, text) == IsSubstring(kw, text) \/ InOrder(kw, text)

\* A variant that searches the English name only.
FullTextEnOnly(l) == Lower(NameEn(l))

\* full_text of a parsed line.
FullText(l) == Lower(NameEn(l) \o <<" ">> \o NameZh(l))

\* is_match of a line: it parses and every keyword matches its name text.
LineMatches(keywords_list, l) ==
    /\ ~l.bad
    /\ \A i \in DOMAIN keywords_list : TokenMatch(keywords_list[i], FullText(l))

\* os.listdir, filtered to .jsonl: the files present, in directory order.
DirOrder == <<SdeFile, "t1", "t2">>

RECURSIVE ListFrom(_, _)
ListFrom(fs, names) ==
    IF names = <<>> THEN <<>>
    ELSE (IF fs[Head(names)].exists THEN <<Head(names)>> ELSE <<>>)
         \o ListFrom(fs, Tail(names))

ListDir(fs) == ListFrom(fs, DirOrder)

\* A new streaming SearchWorker(keyword) is created and started.
FbLaunch ==
    /\ fbPc' = "run"
    /\ fbKeyword' = Strip(searchText)
    /\ fbRunning' = TRUE
    /\ fbListing' = <<>>
    /\ fbFile' = 1
    /\ fbLine' = 0
    /\ fbEmitted' = <<>>
    /\ total_found' = 0
    /\ fbFinished' = <<>>
    /\ fbErrors' = 0

\* eve_search_gui.EveSearchApp.start_search.
fb_start_search ==
    /\ guiPc = "ready"
    /\ Strip(searchText) # <<>>
    /\ IF fbPc # "idle"
       THEN /\ fbRunning' = FALSE
            /\ guiPc' = "wait"
            /\ UNCHANGED <<fbPc, fbKeyword, fbListing, fbFile, fbLine, fbEmitted,
                           total_found, fbFinished, fbErrors>>
       ELSE /\ FbLaunch
            /\ guiPc' = "ready"
    /\ UNCHANGED notFallback

\* worker.wait() returns in start_search.
fb_start_search_resume ==
    /\ guiPc = "wait"
    /\ fbPc = "idle"
    /\ FbLaunch
    /\ guiPc' = "ready"
    /\ UNCHANGED notFallback

\* eve_search_gui.EveSearchApp.stop_search.
fb_stop_search ==
    /\ guiPc = "ready"
    /\ fbPc # "idle"
    /\ fbRunning' = FALSE
    /\ UNCHANGED <<fbPc, fbKeyword, fbListing, fbFile, fbLine, fbEmitted,
                   total_found, fbFinished, fbErrors, guiPc>>
    /\ UNCHANGED notFallback

\* run(): the data directory is missing: error is emitted and run returns.
F_NoDir ==
    /\ fbPc = "run"
    /\ ~sdeDir
    /\ fbErrors' = fbErrors + 1
    /\ fbPc' = "idle"
    /\ UNCHANGED <<fbKeyword, fbRunning, fbListing, fbFile, fbLine, fbEmitted,
                   total_found, fbFinished, guiPc>>
    /\ UNCHANGED notFallback

\* run(): the directory is listed.
F_List ==
    /\ fbPc = "run"
    /\ sdeDir
    /\ fbListing' = ListDir(files)
    /\ fbFile' = 1
    /\ fbLine' = 0
    /\ fbPc' = "scan"
    /\ UNCHANGED <<fbKeyword, fbRunning, fbEmitted, total_found, fbFinished,
                   fbErrors, guiPc>>
    /\ UNCHANGED notFallback

\* The next line of the current file is read and, if it matches, emitted.
F_Line ==
    /\ fbPc = "scan"
    /\ fbRunning
    /\ fbFile <= Len(fbListing)
    /\ fbLine < Len(files[fbListing[fbFile]].lines)
    /\ LET l == files[fbListing[fbFile]].lines[fbLine + 1]
       IN  IF LineMatches(Split(Lower(fbKeyword)), l)
           THEN /\ fbEmitted' = Append(fbEmitted,
                                       [file |-> fbListing[fbFile], n |-> fbLine + 1,
                                        line |-> l])
                /\ total_found' = total_found + 1
           ELSE UNCHANGED <<fbEmitted, total_found>>
    /\ fbLine' = fbLine + 1
    /\ UNCHANGED <<fbPc, fbKeyword, fbRunning, fbListing, fbFile, fbFinished,
                   fbErrors, guiPc>>
    /\ UNCHANGED notFallback

\* The current file is exhausted: on to the next one.
F_NextFile ==
    /\ fbPc = "scan"
    /\ fbRunning
    /\ fbFile <= Len(fbListing)
    /\ fbLine = Len(files[fbListing[fbFile]].lines)
    /\ fbFile' = fbFile + 1
    /\ fbLine' = 0
    /\ UNCHANGED <<fbPc, fbKeyword, fbRunning, fbListing, fbEmitted, total_found,
                   fbFinished, fbErrors, guiPc>>
    /\ UNCHANGED notFallback

\* Both loops are left, by exhaustion or by break: finished carries total_found.
F_Finish ==
    /\ fbPc = "scan"
    /\ fbFile > Len(fbListing) \/ ~fbRunning
    /\ fbFinished' = Append(fbFinished, total_found)
    /\ fbPc' = "idle"
    /\ UNCHANGED <<fbKeyword, fbRunning, fbListing, fbFile, fbLine, fbEmitted,
                   total_found, fbErrors, guiPc>>
    /\ UNCHANGED notFallback

FallbackWorkerStep == F_NoDir \/ F_List \/ F_Line \/ F_NextFile \/ F_Finish

\* The streaming search at rest.
IdleFallback ==
    /\ fbPc = "idle"
    /\ fbKeyword = <<>>
    /\ fbRunning = FALSE
    /\ fbListing = <<>>
    /\ fbFile = 1
    /\ fbLine = 0
    /\ fbEmitted = <<>>
    /\ total_found = 0
    /\ fbFinished = <<>>
    /\ fbErrors = 0

\* ------------------------------------------------------------ IndexWorker
\* The rows build_index makes of the lines of one file: a line that does not
\* parse is passed over.
RECURSIVE FileRows(_, _)
FileRows(file_name, ls) ==
    IF ls = <<>> THEN <<>>
    ELSE (IF Head(ls).bad THEN <<>> ELSE <<IndexRow(file_name, Head(ls))>>)
         \o FileRows(file_name, Tail(ls))

\* The rows a rebuild over the snapshot fs holds.
RECURSIVE RowsOfFiles(_, _)
RowsOfFiles(fs, names) ==
    IF names = <<>> THEN <<>>
    ELSE FileRows(Head(names), fs[Head(names)].lines) \o RowsOfFiles(fs, Tail(names))

SnapshotRows(fs) == RowsOfFiles(fs, ListDir(fs))

\* The callback's event: the message names the file, current and total.
Progress(file_name, current, total) ==
    [kind |-> "progress", ok |-> TRUE, file |-> file_name, cur |-> current,
     total |-> total, percent |-> (current * 100) \div total]

InitProgress ==
    [kind |-> "progress", ok |-> TRUE, file |-> "", cur |-> 0, total |-> 0,
     percent |-> 0]

Finished(success) ==
    [kind |-> "finished", ok |-> success, file |-> "", cur |-> 0, total |-> 0,
     percent |-> 0]

\* Progress events the callback has emitted in the current run.
Reported ==
    Cardinality({i \in DOMAIN idxEvents :
                    idxEvents[i].kind = "progress" /\ idxEvents[i].file # ""})

\* EveSearchApp.start_index_build.
start_index_build ==
    /\ guiPc = "ready"
    /\ rebuildBtnEnabled
    /\ idxPc = "idle"
    /\ idxPc' = "init"
    /\ idxEvents' = <<>>
    /\ idxPrior' = items
    /\ UNCHANGED <<pending, idxListing, idxFile, dbExists, items>>
    /\ rebuildBtnEnabled' = FALSE
    /\ searchBtnEnabled' = FALSE
    /\ UNCHANGED <<guiQueue, table, btnStop, inputEnabled, updateBtnEnabled, srchGen>>
    /\ UNCHANGED notIndexWorkers

\* run(): the first progress event, then EveDB.init_db.
I_InitDb ==
    /\ idxPc = "init"
    /\ idxEvents' = Append(idxEvents, InitProgress)
    /\ dbExists' = TRUE
    /\ idxPc' = "clear"
    /\ UNCHANGED <<idxPrior, items, pending, idxListing, idxFile>>
    /\ UNCHANGED notIndex

\* EveDB.clear_db: DELETE FROM items, committed.
I_ClearDb ==
    /\ idxPc = "clear"
    /\ items' = <<>>
    /\ idxPc' = "check"
    /\ UNCHANGED <<idxPrior, dbExists, pending, idxListing, idxFile, idxEvents>>
    /\ UNCHANGED notIndex

\* A variant without the return: after finished(False) the run goes on to
\* build_index.
I_CheckDirFallsThrough ==
    /\ idxPc = "check"
    /\ idxPc' = "list"
    /\ IF sdeDir
       THEN UNCHANGED <<idxEvents, guiQueue>>
       ELSE /\ idxEvents' = Append(idxEvents, Finished(FALSE))
            /\ guiQueue' = Append(guiQueue,
                                  Signal("index_finished", 0, <<>>, 0, FALSE))
    /\ UNCHANGED <<idxPrior, dbExists, items, pending, idxListing, idxFile>>
    /\ UNCHANGED searchUi
    /\ UNCHANGED notIndexWorkers

\* run(): the data directory is looked for only now.
I_CheckDir ==
    /\ idxPc = "check"
    /\ IF sdeDir
       THEN /\ idxPc' = "list"
            /\ UNCHANGED <<idxEvents, guiQueue>>
       ELSE /\ idxPc' = "idle"
            /\ idxEvents' = Append(idxEvents, Finished(FALSE))
            /\ guiQueue' = Append(guiQueue,
                                  Signal("index_finished", 0, <<>>, 0, FALSE))
    /\ UNCHANGED <<idxPrior, dbExists, items, pending, idxListing, idxFile>>
    /\ UNCHANGED searchUi
    /\ UNCHANGED notIndexWorkers

\* build_index: the directory is listed.
I_List ==
    /\ idxPc = "list"
    /\ idxListing' = ListDir(files)
    /\ idxFile' = 1
    /\ pending' = <<>>
    /\ idxPc' = "file"
    /\ UNCHANGED <<idxPrior, dbExists, items, idxEvents>>
    /\ UNCHANGED notIndex

\* build_index: the callback is called with idx + 1 before the file is opened.
I_Callback ==
    /\ idxPc = "file"
    /\ idxFile <= Len(idxListing)
    /\ Reported < idxFile
    /\ idxEvents' = Append(idxEvents,
                           Progress(idxListing[idxFile], idxFile, Len(idxListing)))
    /\ UNCHANGED <<idxPrior, idxPc, idxListing, idxFile, pending, dbExists, items>>
    /\ UNCHANGED notIndex

\* A variant that commits after every file.
I_FileCommits ==
    /\ idxPc = "file"
    /\ idxFile <= Len(idxListing)
    /\ Reported = idxFile
    /\ files[idxListing[idxFile]].exists
    /\ items' = items \o FileRows(idxListing[idxFile],
                                  files[idxListing[idxFile]].lines)
    /\ idxFile' = idxFile + 1
    /\ UNCHANGED <<idxPrior, idxPc, idxListing, idxEvents, dbExists, pending>>
    /\ UNCHANGED notIndex

\* build_index: the file is read and its rows are inserted in the open
\* transaction.
I_File ==
    /\ idxPc = "file"
    /\ idxFile <= Len(idxListing)
    /\ Reported = idxFile
    /\ files[idxListing[idxFile]].exists
    /\ pending' = pending \o FileRows(idxListing[idxFile],
                                      files[idxListing[idxFile]].lines)
    /\ idxFile' = idxFile + 1
    /\ UNCHANGED <<idxPrior, idxPc, idxListing, idxEvents, dbExists, items>>
    /\ UNCHANGED notIndex

\* build_index: open() raises after the callback: rollback, and run() reports.
I_OpenFail ==
    /\ idxPc = "file"
    /\ idxFile <= Len(idxListing)
    /\ Reported = idxFile
    /\ idxEvents' = Append(idxEvents, Finished(FALSE))
    /\ pending' = <<>>
    /\ idxPc' = "idle"
    /\ UNCHANGED <<idxPrior, idxListing, idxFile, dbExists, items>>
    /\ guiQueue' = Append(guiQueue, Signal("index_finished", 0, <<>>, 0, FALSE))
    /\ UNCHANGED searchUi
    /\ UNCHANGED notIndexWorkers

\* build_index: commit after the last file, and run() reports success.
I_Commit ==
    /\ idxPc = "file"
    /\ idxFile > Len(idxListing)
    /\ items' = items \o pending
    /\ pending' = <<>>
    /\ idxEvents' = Append(idxEvents, Finished(TRUE))
    /\ idxPc' = "idle"
    /\ UNCHANGED <<idxPrior, idxListing, idxFile, dbExists>>
    /\ guiQueue' = Append(guiQueue, Signal("index_finished", 0, <<>>, 0, TRUE))
    /\ UNCHANGED searchUi
    /\ UNCHANGED notIndexWorkers

IndexWorkerStep ==
    \/ I_InitDb \/ I_ClearDb \/ I_CheckDir \/ I_List
    \/ I_Callback \/ I_File \/ I_OpenFail \/ I_Commit

\* ---------------------------------------------------- EveSearchApp slots
\* The GUI thread takes the next queued signal.
Deliver(sig) ==
    /\ guiPc = "ready"
    /\ guiQueue # <<>>
    /\ Head(guiQueue).sig = sig
    /\ guiQueue' = Tail(guiQueue)

\* EveSearchApp.add_result: a row is appended to the table.
add_result ==
    /\ Deliver("result_found")
    /\ table' = Append(table, [gen |-> Head(guiQueue).gen, row |-> Head(guiQueue).row])
    /\ UNCHANGED <<btnStop, inputEnabled, searchBtnEnabled, rebuildBtnEnabled,
                   updateBtnEnabled, srchGen>>
    /\ UNCHANGED notGui

\* EveSearchApp.search_finished.
search_finished ==
    /\ Deliver("finished")
    /\ reset_ui_state
    /\ UNCHANGED <<table, searchBtnEnabled, rebuildBtnEnabled, updateBtnEnabled,
                   srchGen>>
    /\ UNCHANGED notGui

\* EveSearchApp.search_error.
search_error ==
    /\ Deliver("error")
    /\ reset_ui_state
    /\ UNCHANGED <<table, searchBtnEnabled, rebuildBtnEnabled, updateBtnEnabled,
                   srchGen>>
    /\ UNCHANGED notGui

\* EveSearchApp.index_finished.
index_finished ==
    /\ Deliver("index_finished")
    /\ rebuildBtnEnabled' = TRUE
    /\ searchBtnEnabled' = TRUE
    /\ UNCHANGED <<table, btnStop, inputEnabled, updateBtnEnabled, srchGen>>
    /\ UNCHANGED notGui

\* EveSearchApp.update_finished.
update_finished ==
    /\ Deliver("update_finished")
    /\ updateBtnEnabled' = TRUE
    /\ UNCHANGED <<table, btnStop, inputEnabled, searchBtnEnabled, rebuildBtnEnabled,
                   srchGen>>
    /\ UNCHANGED notGui

\* The main window as setup_ui leaves it.
IdleGui ==
    /\ guiQueue = <<>>
    /\ table = <<>>
    /\ btnStop = FALSE
    /\ inputEnabled = TRUE
    /\ searchBtnEnabled = TRUE
    /\ rebuildBtnEnabled = TRUE
    /\ updateBtnEnabled = TRUE
    /\ srchGen = 0

\* The index worker at rest.
IdleIndex ==
    /\ idxPc = "idle"
    /\ pending = <<>>
    /\ idxListing = <<>>
    /\ idxFile = 1
    /\ idxEvents = <<>>
    /\ idxPrior = <<>>

\* ------------------------------------------------- inputs of the sync runs
SyncLocalT1 == {Absent, File(<<Rec(1, 0), BadLine, Rec(2, 0)>>)}

SyncLocalT2 == {Absent, File(<<Rec(2, 0), Rec(None, 0)>>)}

SyncLocalMarker ==
    {Absent, File(<<BadLine>>), File(<<MarkerLine(1)>>), File(<<MarkerLine(2)>>)}

SyncLocalFiles ==
    {fs \in [FileNames -> SyncLocalT1 \cup SyncLocalT2 \cup SyncLocalMarker] :
        /\ fs["t1"] \in SyncLocalT1
        /\ fs["t2"] \in SyncLocalT2
        /\ fs[SdeFile] \in SyncLocalMarker}

NoFiles == [n \in FileNames |-> Absent]

ArchT1 == [name |-> "t1", lines |-> <<Rec(1, 1), Rec(2, 1)>>]

ArchT2 == [name |-> "t2", lines |-> <<Rec(2, 1)>>]

ArchMarker(b) == [name |-> SdeFile, lines |-> <<MarkerLine(b)>>]

SyncArchives(b) ==
    {<<ArchMarker(b), ArchT1, ArchT2>>, <<ArchT1, ArchT2>>, <<ArchT2, ArchMarker(1)>>}

SyncManifestLines ==
    {BadManifestLine, MetaLine,
     Entry("t1", {1}, {2}, {}, FALSE),
     Entry("t2", {}, {}, {1, 2}, TRUE),
     Entry("t1", {}, {}, {}, FALSE)}

LatestBuilds == {2}

\* The change computation at rest.
IdleEntry ==
    /\ eEntry = MetaLine
    /\ eFile = Absent
    /\ eOut = <<>>
    /\ eCliOut = <<>>
    /\ eDone = FALSE
    /\ eIo = NoIo
    /\ eCliIo = NoIo

InitSync ==
    /\ IdleGui
    /\ IdleIndex
    /\ IdleFallback
    /\ IdleEntry
    /\ IdleSearch
    /\ NoDb
    /\ sdeDir \in BOOLEAN
    /\ files \in (IF sdeDir THEN SyncLocalFiles ELSE {NoFiles})
    /\ changes = Absent
    /\ latest \in LatestBuilds
    /\ manifest \in BoundedSeq(SyncManifestLines, MaxManifest)
    /\ archive \in SyncArchives(latest)
    /\ updPc = "idle"
    /\ latest_buildNumber = None
    /\ current_buildNumber = None
    /\ extractIdx = 0
    /\ cursor = 0
    /\ updOk = TRUE
    /\ updEvents = <<>>
    /\ refresh = "none"
    /\ startFiles = files
    /\ prevRun = [ran |-> FALSE, ok |-> FALSE, log |-> Absent]
    /\ installed = files

NextSync == start_update \/ UpdateWorkerStep \/ update_finished

SpecSync == InitSync /\ [][NextSync]_vars

\* ------------------------------------- the change computation on one line
\* The update worker at rest over an empty installation.
IdleSync ==
    /\ sdeDir = FALSE
    /\ files = NoFiles
    /\ changes = Absent
    /\ latest \in LatestBuilds
    /\ manifest = <<>>
    /\ archive = <<>>
    /\ updPc = "idle"
    /\ latest_buildNumber = None
    /\ current_buildNumber = None
    /\ extractIdx = 0
    /\ cursor = 0
    /\ updOk = TRUE
    /\ updEvents = <<>>
    /\ refresh = "none"
    /\ startFiles = files
    /\ prevRun = [ran |-> FALSE, ok |-> FALSE, log |-> Absent]

\* Lines of a table file: records keyed by an id or by nothing, and a bad line.
EntryLines == {Rec(k, 0) : k \in Ids \cup {None}} \cup {BadLine}

EntryFileSet == {Absent} \cup {File(ls) : ls \in BoundedSeq(EntryLines, MaxFileLen)}

EntrySet ==
    {Entry("t1", a, c, r, fa) :
        a \in SUBSET Ids, c \in SUBSET Ids, r \in SUBSET Ids, fa \in BOOLEAN}

EntryFiles(f) == [NoFiles EXCEPT !["t1"] = f]

InitEntry ==
    /\ IdleGui
    /\ IdleIndex
    /\ IdleFallback
    /\ IdleSync
    /\ IdleSearch
    /\ NoDb
    /\ eEntry \in EntrySet
    /\ eFile \in EntryFileSet
    /\ eOut = <<>>
    /\ eCliOut = <<>>
    /\ eDone = FALSE
    /\ eIo = NoIo
    /\ eCliIo = NoIo
    /\ installed = files

\* The manifest line is processed against the table file, by the worker and the script.
E_Apply ==
    /\ ~eDone
    /\ eOut' = LineEntries(eEntry, EntryFiles(eFile))
    /\ eCliOut' = SDE_LineEntries(eEntry, EntryFiles(eFile))
    /\ eDone' = TRUE
    /\ eIo' = SourceIo(eEntry, EntryFiles(eFile))
    /\ eCliIo' = SDE_SourceIo(eEntry, EntryFiles(eFile))
    /\ UNCHANGED <<eEntry, eFile>>
    /\ UNCHANGED notEntry

NextEntry == E_Apply

SpecEntry == InitEntry /\ [][NextEntry]_vars

\* ------------------------------------------------------ indexed searches
\* Records whose rows the searched index may hold.
SearchRecs ==
    {RecN(1, DictName(<<"A", "b">>, <<"b">>)),
     RecN(2, StrName(<<"b", "a">>)),
     RecN(2, DictName(<<"a", "b">>, <<>>))}

SearchRows == {IndexRow("t1", l) : l \in SearchRecs}

\* What the user types in the searches of the capped index.
SearchKeywords == {<<" ", "B", " ">>, <<"a", " ", "2">>, <<"%">>, <<" ">>}

InitSearch ==
    /\ IdleGui
    /\ IdleIndex
    /\ IdleFallback
    /\ IdleSync
    /\ IdleEntry
    /\ dbExists \in BOOLEAN
    /\ items \in (IF dbExists THEN BoundedSeq(SearchRows, MaxRows) ELSE {<<>>})
    /\ searchText \in SearchKeywords
    /\ limit \in 1 .. MaxLimit
    /\ guiPc = "ready"
    /\ srchPc = "idle"
    /\ srchKeyword = <<>>
    /\ is_running = FALSE
    /\ results = <<>>
    /\ emitted = <<>>
    /\ srchFinished = <<>>
    /\ srchErrors = 0
    /\ installed = files

NextSearch ==
    \/ start_search \/ start_search_resume \/ stop_search \/ SearchWorkerStep
    \/ add_result \/ search_finished \/ search_error

SpecSearch == InitSearch /\ [][NextSearch]_vars

\* Keywords of up to MaxKw characters against an index of one row.
KwAlphabet == {"a", "b", "A", "1", "_", "%", " "}

InitMatch ==
    /\ IdleGui
    /\ IdleIndex
    /\ IdleFallback
    /\ IdleSync
    /\ IdleEntry
    /\ dbExists \in BOOLEAN
    /\ items \in (IF dbExists THEN {<<r>> : r \in SearchRows} ELSE {<<>>})
    /\ searchText \in BoundedSeq(KwAlphabet, MaxKw)
    /\ limit = MaxLimit
    /\ guiPc = "ready"
    /\ srchPc = "idle"
    /\ srchKeyword = <<>>
    /\ is_running = FALSE
    /\ results = <<>>
    /\ emitted = <<>>
    /\ srchFinished = <<>>
    /\ srchErrors = 0
    /\ installed = files

SpecMatch == InitMatch /\ [][NextSearch]_vars

\* ---------------------------------------------------- streaming searches
FbAlphabet == {"a", "b", "c", "A", " "}

FbLocalT1 ==
    {File(<<RecN(1, DictName(<<"a", "B", "c">>, <<"b">>)), BadLine,
            RecN(2, StrName(<<"c", "a">>))>>),
     File(<<RecN(None, NoName), RecN(1, DictName(<<"a">>, <<"c">>))>>)}

FbLocalT2 == {Absent, File(<<RecN(2, DictName(<<"c">>, <<"A", "b">>))>>)}

FbLocalMarker == {Absent, File(<<MarkerLine(1)>>)}

FbLocalFiles ==
    {fs \in [FileNames -> FbLocalT1 \cup FbLocalT2 \cup FbLocalMarker] :
        /\ fs["t1"] \in FbLocalT1
        /\ fs["t2"] \in FbLocalT2
        /\ fs[SdeFile] \in FbLocalMarker}

InitFallback ==
    /\ IdleGui
    /\ IdleIndex
    /\ IdleEntry
    /\ IdleFallback
    /\ NoDb
    /\ sdeDir \in BOOLEAN
    /\ files \in (IF sdeDir THEN FbLocalFiles ELSE {NoFiles})
    /\ changes = Absent
    /\ latest \in LatestBuilds
    /\ manifest = <<>>
    /\ archive = <<>>
    /\ updPc = "idle"
    /\ latest_buildNumber = None
    /\ current_buildNumber = None
    /\ extractIdx = 0
    /\ cursor = 0
    /\ updOk = TRUE
    /\ updEvents = <<>>
    /\ refresh = "none"
    /\ startFiles = files
    /\ prevRun = [ran |-> FALSE, ok |-> FALSE, log |-> Absent]
    /\ searchText \in BoundedSeq(FbAlphabet, MaxKw)
    /\ limit = 1
    /\ guiPc = "ready"
    /\ srchPc = "idle"
    /\ srchKeyword = <<>>
    /\ is_running = FALSE
    /\ results = <<>>
    /\ emitted = <<>>
    /\ srchFinished = <<>>
    /\ srchErrors = 0
    /\ installed = files

NextFallback ==
    fb_start_search \/ fb_start_search_resume \/ fb_stop_search \/ FallbackWorkerStep

SpecFallback == InitFallback /\ [][NextFallback]_vars

\* ------------------------------------------------------- index rebuilds
ArchT1Shrunk == [name |-> "t1", lines |-> <<Rec(2, 1)>>]

IdxArchives == {<<ArchMarker(2), ArchT1Shrunk, ArchT2>>, <<ArchT2>>}

IdxLocalT1 == {File(<<Rec(1, 0), BadLine>>), File(<<Rec(1, 0), Rec(1, 0)>>)}

IdxLocalT2 == {Absent, File(<<Rec(2, 0), Rec(None, 0)>>)}

IdxLocalMarker == {Absent, File(<<MarkerLine(1)>>)}

IdxLocalFiles ==
    {fs \in [FileNames -> IdxLocalT1 \cup IdxLocalT2 \cup IdxLocalMarker] :
        /\ fs["t1"] \in IdxLocalT1
        /\ fs["t2"] \in IdxLocalT2
        /\ fs[SdeFile] \in IdxLocalMarker}

\* What an earlier rebuild left, over a snapshot that has changed since.
StaleRows ==
    FileRows("t1", <<Rec(1, 0), Rec(2, 0)>>) \o FileRows("t2", <<Rec(1, 0)>>)

InitIndex ==
    /\ IdleGui
    /\ IdleIndex
    /\ IdleFallback
    /\ IdleEntry
    /\ IdleSearch
    /\ dbExists \in BOOLEAN
    /\ items \in (IF dbExists THEN {<<>>, StaleRows} ELSE {<<>>})
    /\ sdeDir \in BOOLEAN
    /\ files \in (IF sdeDir THEN IdxLocalFiles ELSE {NoFiles})
    /\ changes = Absent
    /\ latest \in LatestBuilds
    /\ manifest \in {<<>>, <<Entry("t1", {}, {}, {1}, FALSE)>>}
    /\ archive \in IdxArchives
    /\ updPc = "idle"
    /\ latest_buildNumber = None
    /\ current_buildNumber = None
    /\ extractIdx = 0
    /\ cursor = 0
    /\ updOk = TRUE
    /\ updEvents = <<>>
    /\ refresh = "none"
    /\ startFiles = files
    /\ prevRun = [ran |-> FALSE, ok |-> FALSE, log |-> Absent]
    /\ installed = files

NextIndex ==
    \/ start_index_build \/ IndexWorkerStep \/ index_finished
    \/ start_update \/ UpdateWorkerStep \/ update_finished

SpecIndex == InitIndex /\ [][NextIndex]_vars

\* The same rebuilds with the update worker never started.
NextIndexAlone == start_index_build \/ IndexWorkerStep \/ index_finished

SpecIndexAlone == InitIndex /\ [][NextIndexAlone]_vars

\* ------------------------------------------- both search paths, one snapshot
\* The index holds what a rebuild makes of the snapshot; the indexed worker and
\* the streaming worker are given the same text.
PathsAlphabet == {"a", "b", "B", "1", "%", " "}

PathsT1 ==
    {File(<<RecN(1, DictName(<<"a">>, <<"B">>)), BadLine,
            RecN(2, StrName(<<"a", "1", "b">>))>>),
     File(<<RecN(2, DictName(<<"b", "a">>, <<>>))>>)}

PathsFiles == {[NoFiles EXCEPT !["t1"] = f] : f \in PathsT1}

InitPaths ==
    /\ IdleGui
    /\ IdleIndex
    /\ IdleFallback
    /\ IdleEntry
    /\ sdeDir = TRUE
    /\ files \in PathsFiles
    /\ dbExists = TRUE
    /\ items = SnapshotRows(files)
    /\ changes = Absent
    /\ latest \in LatestBuilds
    /\ manifest = <<>>
    /\ archive = <<>>
    /\ updPc = "idle"
    /\ latest_buildNumber = None
    /\ current_buildNumber = None
    /\ extractIdx = 0
    /\ cursor = 0
    /\ updOk = TRUE
    /\ updEvents = <<>>
    /\ refresh = "none"
    /\ startFiles = files
    /\ prevRun = [ran |-> FALSE, ok |-> FALSE, log |-> Absent]
    /\ searchText \in BoundedSeq(PathsAlphabet, MaxKw)
    /\ limit = MaxLimit
    /\ guiPc = "ready"
    /\ srchPc = "idle"
    /\ srchKeyword = <<>>
    /\ is_running = FALSE
    /\ results = <<>>
    /\ emitted = <<>>
    /\ srchFinished = <<>>
    /\ srchErrors = 0
    /\ installed = files

NextPaths ==
    \/ start_search \/ S_Query \/ S_EmitResult \/ S_Finish
    \/ add_result \/ search_finished
    \/ fb_start_search \/ fb_start_search_resume
    \/ F_List \/ F_Line \/ F_NextFile \/ F_Finish

SpecPaths == InitPaths /\ [][NextPaths]_vars

\* --------------------------------------------- one operation at a time
\* The user starts an update, a rebuild or a search only when no worker runs and
\* every signal has been delivered.
StoreFiles ==
    [n \in FileNames |->
        IF n = "t1"
        THEN File(<<RecN(1, StrName(<<"a">>)), RecN(2, StrName(<<"a">>))>>)
        ELSE Absent]

StoreArchT1 ==
    [name |-> "t1", lines |-> <<[RecN(1, StrName(<<"a">>)) EXCEPT !.v = 1]>>]

InitStore ==
    /\ IdleGui
    /\ IdleIndex
    /\ IdleFallback
    /\ IdleEntry
    /\ NoDb
    /\ sdeDir \in BOOLEAN
    /\ files = (IF sdeDir THEN StoreFiles ELSE NoFiles)
    /\ changes = Absent
    /\ latest \in LatestBuilds
    /\ manifest = <<Entry("t1", {}, {1}, {2}, FALSE)>>
    /\ archive \in {<<ArchMarker(latest), StoreArchT1>>, <<StoreArchT1>>}
    /\ updPc = "idle"
    /\ latest_buildNumber = None
    /\ current_buildNumber = None
    /\ extractIdx = 0
    /\ cursor = 0
    /\ updOk = TRUE
    /\ updEvents = <<>>
    /\ refresh = "none"
    /\ startFiles = files
    /\ prevRun = [ran |-> FALSE, ok |-> FALSE, log |-> Absent]
    /\ searchText = <<"a">>
    /\ limit = MaxLimit
    /\ guiPc = "ready"
    /\ srchPc = "idle"
    /\ srchKeyword = <<>>
    /\ is_running = FALSE
    /\ results = <<>>
    /\ emitted = <<>>
    /\ srchFinished = <<>>
    /\ srchErrors = 0
    /\ installed = files

Quiet ==
    updPc = "idle" /\ idxPc = "idle" /\ srchPc = "idle" /\ guiQueue = <<>>

NextStore ==
    \/ (Quiet /\ start_update) \/ UpdateWorkerStep \/ update_finished
    \/ (Quiet /\ start_index_build) \/ IndexWorkerStep \/ index_finished
    \/ (Quiet /\ start_search) \/ SearchWorkerStep
    \/ add_result \/ search_finished \/ search_error

SpecStore == InitStore /\ [][NextStore]_vars

\* ------------------------------------------------ the main window at work
\* One session of the main window: searches, rebuilds and updates as the user
\* asks for them, over a small snapshot and no index yet.
\* The archive holds the table as it is installed.
AppArchT1 == [name |-> "t1", lines |-> <<RecN(1, StrName(<<"a">>))>>]

AppFiles ==
    [n \in FileNames |->
        IF n = "t1" THEN File(<<RecN(1, StrName(<<"a">>))>>)
        ELSE Absent]

InitApp ==
    /\ IdleGui
    /\ IdleIndex
    /\ IdleFallback
    /\ IdleEntry
    /\ NoDb
    /\ sdeDir = TRUE
    /\ files = AppFiles
    /\ changes = Absent
    /\ latest \in LatestBuilds
    /\ manifest = <<Entry("t1", {1}, {}, {}, FALSE)>>
    /\ archive = <<AppArchT1>>
    /\ updPc = "idle"
    /\ latest_buildNumber = None
    /\ current_buildNumber = None
    /\ extractIdx = 0
    /\ cursor = 0
    /\ updOk = TRUE
    /\ updEvents = <<>>
    /\ refresh = "none"
    /\ startFiles = files
    /\ prevRun = [ran |-> FALSE, ok |-> FALSE, log |-> Absent]
    /\ searchText = <<"a">>
    /\ limit = 1
    /\ guiPc = "ready"
    /\ srchPc = "idle"
    /\ srchKeyword = <<>>
    /\ is_running = FALSE
    /\ results = <<>>
    /\ emitted = <<>>
    /\ srchFinished = <<>>
    /\ srchErrors = 0
    /\ installed = files

NextApp ==
    \/ start_search \/ start_search_resume \/ stop_search \/ SearchWorkerStep
    \/ add_result \/ search_finished \/ search_error
    \/ start_index_build \/ IndexWorkerStep \/ index_finished
    \/ start_update \/ UpdateWorkerStep \/ update_finished

SpecApp == InitApp /\ [][NextApp]_vars

\* ------------------------------------------------------------ properties
\* Entries of out with the given status and payload.
NumEntries(out, status, l) ==
    Cardinality({i \in DOMAIN out : out[i].status = status /\ out[i].data = l})

\* Lines of file f equal to l.
NumLines(f, l) == Cardinality({i \in DOMAIN f.lines : f.lines[i] = l})

\* "removed" entries of out for id r.
NumRemoved(out, r) ==
    Cardinality({i \in DOMAIN out : out[i] = RemovedRecord("t1", r)})

\* Payloads that occur in the file or in the output.
Payloads(f, out) ==
    {f.lines[i] : i \in DOMAIN f.lines} \cup {out[i].data : i \in DOMAIN out}

\* Every entry of out is a removed placeholder or an added/changed copy of a record.
WellFormedOut(f, out) ==
    \A i \in DOMAIN out :
        \/ \E r \in Ids : out[i] = RemovedRecord("t1", r)
        \/ /\ out[i].status \in {"added", "changed"}
           /\ out[i].src = "t1"
           /\ \E j \in DOMAIN f.lines : f.lines[j] = out[i].data /\ ~out[i].data.bad

\* C1: two successful sync runs in succession against unchanged upstream data
\* leave the same change log: the second run rewrites it, it does not append.
C1_IdempotentSync ==
    (updPc = "emit" /\ updOk /\ prevRun.ran /\ prevRun.ok) => changes = prevRun.log

C1_Witness ==
    /\ updPc = "emit" /\ updOk /\ prevRun.ran /\ prevRun.ok
    /\ Len(changes.lines) >= 3
    /\ refresh = "skipped"

\* The entries of one line, as the original sentence of C2 counts them.
ExactlyAsListed(m, f, out) ==
    /\ WellFormedOut(f, out)
    /\ \A r \in Ids : NumRemoved(out, r) = (IF r \in m.removed THEN 1 ELSE 0)
    /\ \A l \in Payloads(f, out) :
          l.bad \/ l.nm = RemovedName
          \/ /\ NumEntries(out, "added", l)
                  = (IF l.key \in m.added THEN NumLines(f, l) ELSE 0)
             /\ NumEntries(out, "changed", l)
                  = (IF l.key \in m.changed THEN NumLines(f, l) ELSE 0)

\* The same with an id listed as both added and changed counted as added only.
ExactlyAsListedAddedFirst(m, f, out) ==
    /\ WellFormedOut(f, out)
    /\ \A r \in Ids : NumRemoved(out, r) = (IF r \in m.removed THEN 1 ELSE 0)
    /\ \A l \in Payloads(f, out) :
          l.bad \/ l.nm = RemovedName
          \/ /\ NumEntries(out, "added", l)
                  = (IF l.key \in m.added THEN NumLines(f, l) ELSE 0)
             /\ NumEntries(out, "changed", l)
                  = (IF l.key \in m.changed \ m.added THEN NumLines(f, l) ELSE 0)

\* C2 as stated: with fileAdded false and the table file present, the entries are
\* one removed per removed id, one added per record with id in added, one changed
\* per record with id in changed, and nothing else.
C2_Original ==
    (eDone /\ ~eEntry.fileAdded /\ eFile.exists)
        => /\ ExactlyAsListed(eEntry, eFile, eOut)
           /\ ExactlyAsListed(eEntry, eFile, eCliOut)

\* C2 amended: a record whose id is in added and in changed gets its one entry
\* as added; changed entries are those of records with id in changed but not added.
C2_ChangeCompleteness ==
    (eDone /\ ~eEntry.fileAdded /\ eFile.exists)
        => /\ ExactlyAsListedAddedFirst(eEntry, eFile, eOut)
           /\ ExactlyAsListedAddedFirst(eEntry, eFile, eCliOut)

C2_Witness ==
    /\ eDone /\ ~eEntry.fileAdded /\ eFile.exists
    /\ eEntry.added = {1} /\ eEntry.changed = {2} /\ eEntry.removed = {2}
    /\ eFile.lines = <<Rec(1, 0), Rec(None, 0)>>
    /\ Len(eOut) = 2

\* C3: with fileAdded true and added and changed empty, every record of the table
\* file gets exactly one entry, with status added.
C3_FileAdded ==
    (eDone /\ eEntry.fileAdded /\ eEntry.added = {} /\ eEntry.changed = {})
        => /\ WellFormedOut(eFile, eOut)
           /\ \A r \in Ids : NumRemoved(eOut, r) = (IF r \in eEntry.removed THEN 1 ELSE 0)
           /\ \A l \in Payloads(eFile, eOut) :
                 l.bad \/ l.nm = RemovedName
                 \/ /\ NumEntries(eOut, "added", l) = NumLines(eFile, l)
                    /\ NumEntries(eOut, "changed", l) = 0

C3_Witness ==
    /\ eDone /\ eEntry.fileAdded /\ eEntry.added = {} /\ eEntry.changed = {}
    /\ eFile.exists /\ Len(eFile.lines) = 2
    /\ Len(eOut) = 2 + Cardinality(eEntry.removed)
    /\ eOut[Len(eOut)].status = "added"

\* C9: the snapshot is downloaded exactly when the marker read at the check yields
\* no build number or one that differs from the latest; with equal numbers the run
\* goes to the change computation, which starts only after the refresh is done or
\* skipped.
C9_RefreshDecision ==
    [][/\ (updPc = "check" /\ updPc' # "check")
           => /\ updPc' \in {"download", "changes"}
              /\ (updPc' = "download")
                   <=> (ReadMarker(files) = None \/ ReadMarker(files) # latest)
              /\ (updPc' = "changes") => (refresh' = "skipped" /\ files' = files)
       /\ (updPc' = "download" /\ updPc # "download") => updPc = "check"
       /\ (updPc' = "changes" /\ updPc # "changes")
           => \/ updPc = "check" /\ refresh' = "skipped"
              \/ updPc = "extract" /\ refresh' = "done" /\ extractIdx = Len(archive)
       /\ (updPc' = "lines") => refresh' \in {"skipped", "done"}
       /\ files' # files => (updPc = "extract" /\ refresh = "running")]_vars

C9_Witness ==
    /\ updPc = "lines"
    /\ refresh = "done"
    /\ current_buildNumber = None
    /\ files[SdeFile].exists

\* C10 as stated: a failed download ends the run as failed, the change computation
\* is not entered, and every file of the snapshot is as it was when the run started.
C10_FailedDownloadLeavesSnapshot ==
    (refresh = "failed")
        => /\ ~updOk
           /\ updPc \in {"emit", "idle"}
           /\ files = startFiles

\* Every token of the lowercased keyword is a literal substring of the search text.
AllTokensLiteral(keyword, row) ==
    LET toks == Split(Lower(keyword))
    IN  \A i \in DOMAIN toks : IsSubstring(toks[i], row.search_text)

RECURSIVE LiteralMatching(_, _)
LiteralMatching(rows, keyword) ==
    IF rows = <<>> THEN <<>>
    ELSE (IF AllTokensLiteral(keyword, Head(rows)) THEN <<Head(rows)>> ELSE <<>>)
         \o LiteralMatching(Tail(rows), keyword)

\* C4 as stated: the rows an indexed search returns are, up to the cap, exactly the
\* rows whose search text holds every token of the keyword as a literal substring.
C4_LiteralSubstringMatch ==
    (srchPc = "emitting")
        => results = Take(LiteralMatching(items, srchKeyword), limit)

\* C7: an indexed search returns, and the worker emits, at most limit rows.
C7_ResultCap ==
    /\ Len(results) <= limit
    /\ Len(emitted) <= limit

C7_Witness ==
    /\ srchPc = "idle"
    /\ srchFinished # <<>>
    /\ Len(Matching(items, Split(Lower(srchKeyword)))) > limit
    /\ Len(emitted) = limit

\* C8 as stated: the count reported on completion is the number of rows of the
\* index that match the keyword, also when that exceeds the limit.
C8_ReportsTrueTotal ==
    \A i \in DOMAIN srchFinished :
        srchFinished[i] = Len(Matching(items, Split(Lower(srchKeyword))))

\* The characters of t occur in text in the same order, not necessarily adjacent.
IsSubsequence(t, text) ==
    \E f \in [1 .. Len(t) -> 1 .. Len(text)] :
        /\ \A i, j \in 1 .. Len(t) : i < j => f[i] < f[j]
        /\ \A i \in 1 .. Len(t) : text[f[i]] = t[i]

\* Every token of the lowercased keyword is a substring or a subsequence of the
\* concatenated lowercased names of record l.
EveryTokenInNames(keyword, l) ==
    LET toks == Split(Lower(keyword))
        text == Lower(NameEn(l) \o <<" ">> \o NameZh(l))
    IN  \A i \in DOMAIN toks :
            IsSubstring(toks[i], text) \/ IsSubsequence(toks[i], text)

\* The lines the streaming worker has emitted, as (file, line number) pairs.
FbEmittedAt == {<<fbEmitted[i].file, fbEmitted[i].n>> : i \in DOMAIN fbEmitted}

\* C5: a streaming search that runs to its end emits a record exactly when every
\* token of the keyword is a substring or a subsequence of its name text, once.
C5_FallbackMatch ==
    (fbFinished # <<>> /\ fbRunning)
        => /\ Len(fbEmitted) = Cardinality(FbEmittedAt)
           /\ \A name \in FileNames :
                \A n \in DOMAIN files[name].lines :
                    (<<name, n>> \in FbEmittedAt)
                        <=> /\ files[name].exists
                            /\ ~files[name].lines[n].bad
                            /\ EveryTokenInNames(fbKeyword, files[name].lines[n])

\* "ac" against the names "aBc" and "b": no substring of "abc b", yet emitted.
C5_Witness ==
    /\ fbFinished # <<>> /\ fbRunning
    /\ fbKeyword = <<"a", "c">>
    /\ \E i \in DOMAIN fbEmitted :
          /\ fbEmitted[i].line = RecN(1, DictName(<<"a", "B", "c">>, <<"b">>))
          /\ ~IsSubstring(fbKeyword, FullText(fbEmitted[i].line))
    /\ \E n \in DOMAIN files["t2"].lines :
          ~files["t2"].lines[n].bad /\ <<"t2", n>> \notin FbEmittedAt

\* The (source file, id) of every row, with multiplicity.
RECURSIVE KeyBag(_)
KeyBag(rows) ==
    IF rows = <<>> THEN EmptyBag
    ELSE SetToBag({<<Head(rows).source_file, Head(rows).id>>}) (+) KeyBag(Tail(rows))

\* C6: when a rebuild completes successfully the index holds rows only for
\* records of the current snapshot, each at most as often as the snapshot has it.
C6_RebuildClearsStale ==
    [][(idxPc = "file" /\ idxPc' = "idle"
            /\ idxEvents'[Len(idxEvents')] = Finished(TRUE))
        => KeyBag(items') \sqsubseteq KeyBag(SnapshotRows(files'))]_vars

\* The entries a whole manifest appends to an emptied change log over snapshot fs.
RECURSIVE ManifestEntries(_, _)
ManifestEntries(ms, fs) ==
    IF ms = <<>> THEN <<>>
    ELSE LineEntries(Head(ms), fs) \o ManifestEntries(Tail(ms), fs)

\* The snapshot with every member of the archive extracted over it.
RECURSIVE ExtractAll(_, _)
ExtractAll(fs, arch) ==
    IF arch = <<>> THEN fs ELSE ExtractAll(ExtractMember(fs, Head(arch)), Tail(arch))

\* The change log one successful run over the installed snapshot leaves.
SingleRunLog ==
    File(ManifestEntries(manifest,
                         IF UpToDate(ReadMarker(installed), latest)
                         THEN installed
                         ELSE ExtractAll(installed, archive)))

\* C11: a successful run that follows an aborted one leaves the change log a
\* single successful run would have left.
C11_RetryEqualsSingleRun ==
    (updPc = "emit" /\ updOk /\ prevRun.ran /\ ~prevRun.ok) => changes = SingleRunLog

\* C12: a run that aborts in the change computation leaves the change log as it
\* was when the run started.
C12_AbortKeepsChangeLog ==
    (updPc = "emit" /\ ~updOk /\ refresh \in {"skipped", "done"})
        => changes = prevRun.log

\* The manifest without the lines that do not parse and without the _meta line.
Parseable(ms) == SelectSeq(ms, LAMBDA m : ~m.bad /\ m.key # "_meta")

\* C20: a manifest line that does not parse neither ends the run nor writes an
\* entry, and a successful run leaves the entries of the manifest without the
\* unparseable lines and the _meta line.
C20_BadManifestLineSkipped ==
    /\ [](updPc = "emit" /\ updOk
            => changes = File(ManifestEntries(Parseable(manifest), files)))
    /\ [][(updPc = "lines" /\ cursor' = cursor + 1 /\ manifest[cursor'].bad)
            => updOk' /\ updPc' = "lines" /\ changes' = changes]_vars

\* A run over a manifest with an unparseable line and a line with entries ends
\* successfully.
C20_Witness ==
    /\ updPc = "emit" /\ updOk
    /\ \E i \in DOMAIN manifest : manifest[i].bad
    /\ changes.lines # <<>>

\* C13: a worker of a kind is started only when no worker of that kind is running,
\* and a search asked for while one runs first clears the old worker's flag and
\* waits, starting nothing until the old worker has finished.
C13_OneWorkerPerKind ==
    [][/\ (srchGen' # srchGen) => srchPc = "idle"
       /\ (srchPc # "idle" /\ guiPc = "ready" /\ guiPc' = "wait")
            => ~is_running' /\ srchGen' = srchGen /\ srchPc' = srchPc
       /\ (guiPc = "wait" /\ srchPc # "idle") => (guiPc' = "wait" /\ srchGen' = srchGen)
       /\ (updPc' = "latest" /\ updPc # "latest") => updPc = "idle"
       /\ (idxPc' = "init" /\ idxPc # "init") => idxPc = "idle"]_vars

\* A second search has been asked for while the first runs: the first worker's
\* flag is cleared and the GUI thread waits for it, with an update and a rebuild
\* under way.
C13_Witness ==
    /\ guiPc = "wait"
    /\ srchPc # "idle"
    /\ ~is_running
    /\ srchGen = 1
    /\ updPc # "idle"
    /\ idxPc # "idle"

\* C14: no state has an UpdateWorker and an IndexWorker running together.
C14_NoUpdateDuringRebuild == ~(updPc # "idle" /\ idxPc # "idle")

\* C15: no state has a SearchWorker about to query the index while an IndexWorker
\* is clearing or repopulating it.
C15_NoSearchDuringRebuild ==
    ~(srchPc = "run" /\ idxPc \in {"clear", "check", "list", "file"})

\* C16: a cancelled search reports the number of results it emitted.
C16_CancelledCountIsPartial ==
    (srchPc = "idle" /\ srchFinished # <<>> /\ ~is_running)
        => srchFinished[1] = Len(emitted)

\* The signal comes from a search that has been cancelled or replaced.
Cancelled(e) == e.gen # srchGen \/ ~is_running

\* C17: the delivery of a result or completion signal of a cancelled search adds
\* no row to the table and leaves the search controls as they are.
C17_CancelledEventsDiscarded ==
    [][(/\ guiQueue # <<>>
        /\ guiQueue' = Tail(guiQueue)
        /\ Head(guiQueue).sig \in {"result_found", "finished", "error"}
        /\ Cancelled(Head(guiQueue)))
        => (table' = table /\ btnStop' = btnStop /\ inputEnabled' = inputEnabled)]_vars

\* C18: a search started with no index and the snapshot present ends without the
\* error signal.
C18_FallbackWhenNoIndex ==
    [][(srchPc = "run" /\ srchPc' # "run" /\ ~dbExists /\ sdeDir)
        => srchErrors' = srchErrors]_vars

\* C19: every row of the index has a non-empty id.
C19_NoRowWithoutId == \A i \in DOMAIN items : items[i].id # <<>>


\* ------------------------------------------------------ a failed rebuild
\* The last event of the IndexWorker that has just ended.
LastIdxEvent == idxEvents[Len(idxEvents)]

\* The IndexWorker has run and ended with finished(False).
RebuildFailed ==
    idxPc = "idle" /\ idxEvents # <<>> /\ LastIdxEvent = Finished(FALSE)

\* C21: when a rebuild has ended with failure (data directory missing, or a
\* table file that cannot be opened), the committed rows of the index are the
\* rows it held when the rebuild was started.
C21_FailedRebuildKeepsIndex == RebuildFailed => items = idxPrior


\* --------------------------------------------------- entries of one line
\* Positions of out that hold a "removed" entry.
RemovedAt(out) == {i \in DOMAIN out : out[i].status = "removed"}

\* C22: whatever the table file is (absent included) and whatever added, changed
\* and fileAdded are, the "removed" entries written for a manifest line are the
\* placeholders of the ids of its removed set, one for each id.
C22_RemovedPlaceholders ==
    eDone => /\ \A i \in RemovedAt(eOut) :
                    \E r \in eEntry.removed : eOut[i] = RemovedRecord(eEntry.key, r)
             /\ \A r \in Ids : NumRemoved(eOut, r)
                                   = (IF r \in eEntry.removed THEN 1 ELSE 0)

C22_Witness ==
    /\ eDone /\ ~eFile.exists
    /\ eEntry.removed = {1, 2} /\ eEntry.added = {1} /\ eEntry.fileAdded
    /\ eOut = <<RemovedRecord("t1", 1), RemovedRecord("t1", 2)>>


\* The one status the priority rule gives a record with id k, "" for none.
ByPriority(k, m) ==
    CASE k \in m.added -> "added"
      [] k \notin m.added /\ k \in m.changed -> "changed"
      [] k \notin m.added /\ k \notin m.changed /\ m.fileAdded -> "added"
      [] OTHER -> ""

\* C23: every record of the scanned table file gets one entry if the priority
\* rule (added, else changed, else fileAdded) gives it a status, with that
\* status, and none otherwise; no record is written twice or under two statuses.
C23_StatusByPriority ==
    eDone =>
      /\ WellFormedOut(eFile, eOut)
      /\ \A l \in Payloads(eFile, eOut) :
            l.bad \/ l.nm = RemovedName
            \/ \A st \in {"added", "changed"} :
                  NumEntries(eOut, st, l)
                      = (IF ByPriority(l.key, eEntry) = st THEN NumLines(eFile, l) ELSE 0)

C23_Witness ==
    /\ eDone /\ eFile.exists
    /\ eEntry.added = {1} /\ eEntry.changed = {1, 2} /\ eEntry.fileAdded
    /\ eEntry.removed = {}
    /\ eFile.lines = <<Rec(1, 0), Rec(2, 0)>>
    /\ Len(eOut) = 2 /\ eOut[1].status = "added" /\ eOut[2].status = "changed"


\* C24: for one manifest line the table file is opened at most once and each of
\* its lines is read at most once, however many ids added and changed list, by
\* the worker and by the script.
C24_SinglePass ==
    eDone => /\ eIo.opens <= 1 /\ eIo.reads <= Len(eFile.lines)
             /\ eCliIo.opens <= 1 /\ eCliIo.reads <= Len(eFile.lines)

C24_Witness ==
    /\ eDone /\ eFile.exists
    /\ eEntry.added = {1, 2} /\ eEntry.changed = {1, 2}
    /\ eFile.lines = <<Rec(2, 0), Rec(1, 0)>>
    /\ eIo = [opens |-> 1, reads |-> 2]
    /\ eCliIo = [opens |-> 1, reads |-> 2]
    /\ Len(eOut) = 2


\* ------------------------------------------------ order of the change log
\* The entries of blk that are not placeholders, and their payloads.
Scanned(blk) == SelectSeq(blk, LAMBDA e : e.status # "removed")

DataOf(es) == [i \in DOMAIN es |-> es[i].data]

\* blk is what one manifest line m may contribute: entries of table m.key, the
\* placeholders first, then copies of records of the table file in file order.
OrderedBlock(blk, m, fs) ==
    /\ \A i \in DOMAIN blk : blk[i].src = m.key
    /\ \A i, j \in DOMAIN blk :
          (blk[i].status = "removed" /\ blk[j].status # "removed") => i < j
    /\ Scanned(blk) # <<>> =>
          /\ m.key \in DOMAIN fs
          /\ IsSubsequence(DataOf(Scanned(blk)), fs[m.key].lines)

\* C25: each manifest line adds its entries as one block at the end of the change
\* log, after the entries of every earlier line; in the block the removed entries
\* come first and the added/changed entries follow in the order of their records
\* in the table file.
C25_EmissionOrder ==
    [][(updPc = "lines" /\ cursor' = cursor + 1) =>
          /\ Len(changes'.lines) >= Len(changes.lines)
          /\ SubSeq(changes'.lines, 1, Len(changes.lines)) = changes.lines
          /\ OrderedBlock(SubSeq(changes'.lines, Len(changes.lines) + 1,
                                 Len(changes'.lines)),
                          manifest[cursor'], files)]_vars

C25_Witness ==
    /\ updPc = "emit" /\ updOk
    /\ manifest = <<Entry("t1", {1}, {2}, {}, FALSE), Entry("t2", {}, {}, {1, 2}, TRUE)>>
    /\ Len(changes.lines) = 6
    /\ changes.lines[2].status = "changed"
    /\ changes.lines[3] = RemovedRecord("t2", 1)
    /\ changes.lines[6].status = "added" /\ changes.lines[6].data = Rec(None, 0)


\* ------------------------------------------------------ progress events
\* Table files build_index has read to the end in the current run.
FilesDone == idxFile - 1

\* C26: every progress event (file, k, total) of the current rebuild has been
\* emitted with file read to the end and k no more than the number of files
\* read to the end; an event with k = total exists only when every file has
\* been read.
C26_ProgressAfterFile ==
    \A i \in DOMAIN idxEvents :
        (idxEvents[i].kind = "progress" /\ idxEvents[i].file # "")
            => /\ idxEvents[i].cur <= FilesDone
               /\ idxEvents[i].cur = idxEvents[i].total => idxFile > Len(idxListing)


\* --------------------------------------------------- who writes the stores
\* What a step of each operation changes when it acts.
changeVars == <<changes, cursor>>

rebuildVars == <<idxPc, pending, idxListing, idxFile, idxEvents>>

queryVars == <<srchPc, results, emitted, srchFinished, srchErrors>>

\* C27: the snapshot files change only in the extraction step of the download;
\* the steps of the change computation, of the rebuild and of a search leave
\* every snapshot file as it is, and the steps of a search also leave the index
\* as it is.
C27_SnapshotFrame ==
    [][/\ files' # files => updPc = "extract"
       /\ (updPc \in {"changes", "lines"} /\ changeVars' # changeVars) => files' = files
       /\ rebuildVars' # rebuildVars => files' = files
       /\ queryVars' # queryVars
             => (files' = files /\ items' = items /\ dbExists' = dbExists)]_vars

C27_Witness ==
    /\ Quiet
    /\ files # installed /\ files["t1"] = File(StoreArchT1.lines)
    /\ changes.exists /\ Len(changes.lines) = 2
    /\ Len(items) = 1
    /\ srchFinished = <<1>> /\ Len(emitted) = 1


\* ------------------------------------------------ the rebuild's transaction
\* C28: the committed rows change in two ways only: clear_db empties them, and
\* the step that ends build_index with success adds the rows of every listed
\* table file at once. No step makes the rows of some of the files visible, and
\* a build_index that fails leaves the committed rows as it found them.
C28_AllOrNothing ==
    [][items' # items =>
          \/ idxPc = "clear" /\ items' = <<>>
          \/ /\ idxPc = "file" /\ idxPc' = "idle"
             /\ idxEvents'[Len(idxEvents')] = Finished(TRUE)
             /\ items' = items \o SnapshotRows(files)]_vars

C28_Witness ==
    /\ RebuildFailed
    /\ idxListing = <<"t1", "t2">> /\ idxFile = 2 /\ Reported = 2
    /\ FileRows("t1", files["t1"].lines) # <<>>
    /\ items = <<>>


\* ------------------------------------------------ the two paths compared
\* The tokens EveDB.search makes of the text the user typed.
TokensOf(text) == Split(Strip(Lower(text)))

\* No token has a LIKE wildcard or occurs in the id text of the row.
NameOnlyQuery(keywords, row) ==
    \A i \in DOMAIN keywords :
        /\ \A j \in DOMAIN keywords[i] : keywords[i][j] \notin {"%", "_"}
        /\ ~IsSubstring(keywords[i], Lower(row.id))

\* The streaming worker has emitted the record the row was made of.
FbEmits(row) ==
    \E j \in DOMAIN fbEmitted :
        /\ fbEmitted[j].file = row.source_file
        /\ fbEmitted[j].line = row.json_data

\* Both workers have run to the end on the text, neither cancelled.
BothDone ==
    /\ srchPc = "idle" /\ srchFinished # <<>> /\ is_running
    /\ fbPc = "idle" /\ fbFinished # <<>> /\ fbRunning

\* C29: once both paths have answered the same text over the same snapshot,
\* every row the indexed path emitted for a name-only query is a record the
\* streaming path emitted too.
C29_FallbackCoversIndexed ==
    BothDone =>
        \A i \in DOMAIN emitted :
            NameOnlyQuery(TokensOf(searchText), emitted[i]) => FbEmits(emitted[i])

C29_Witness ==
    /\ BothDone
    /\ searchText = <<"1">>
    /\ Len(emitted) = 2 /\ Len(fbEmitted) = 1
    /\ NameOnlyQuery(TokensOf(searchText), emitted[2]) /\ FbEmits(emitted[2])
    /\ ~FbEmits(emitted[1])


\* ------------------------------------------------------- terminal events
\* finished events of the current IndexWorker.
IdxTerminal ==
    Cardinality({i \in DOMAIN idxEvents : idxEvents[i].kind = "finished"})

\* finished and error events of the current SearchWorker.
SrchTerminal == Len(srchFinished) + srchErrors

\* C30: a worker that is running has emitted no terminal event yet, and a worker
\* that has run to its end has emitted exactly one: finished(True) or
\* finished(False) for the UpdateWorker and the IndexWorker, finished or error for
\* the SearchWorker.
C30_OneTerminalEvent ==
    /\ updPc # "idle" => updEvents = <<>>
    /\ (updPc = "idle" /\ prevRun.ran) => Len(updEvents) = 1
    /\ idxPc # "idle" => IdxTerminal = 0
    /\ (idxPc = "idle" /\ idxEvents # <<>>)
          => (IdxTerminal = 1 /\ LastIdxEvent.kind = "finished")
    /\ srchPc # "idle" => SrchTerminal = 0
    /\ (srchPc = "idle" /\ guiPc = "ready" /\ srchGen > 0) => SrchTerminal = 1

C30_Witness ==
    /\ updPc = "idle" /\ updEvents = <<FALSE>>
    /\ RebuildFailed /\ IdxTerminal = 1 /\ Reported = 1
    /\ srchPc = "idle" /\ srchGen = 2 /\ srchErrors = 0 /\ Len(srchFinished) = 1

====
